---- MODULE Spec2Model ----
(***************************************************************************)
(* A model of pkg/runtime/node/node.go: the node runtime of ion.            *)
(*                                                                         *)
(*   - Runtime.Build / getFile / ShouldRebuild : the per-function build     *)
(*     contexts and results (SpecBuild, SpecResolve, SpecConfig);           *)
(*   - Worker.Logs : the two copy loops and the closing task (SpecLogs,     *)
(*     FairSpecLogs);                                                       *)
(*   - Runtime.Run / Worker.Stop : spawning, cancellation and the process   *)
(*     group (SpecRun, FairSpecRun).                                        *)
(*                                                                         *)
(* Strings the code takes apart (paths, handler specs) are sequences of     *)
(* atoms: "/" and "." are atoms of their own, so that Dir, Base, Ext,       *)
(* Split, Join and ReplaceAll are computed, not assumed.  The extension     *)
(* ".tsx" is <<".", "ts", "x">>: it contains ".ts" as the string does.      *)
(***************************************************************************)
EXTENDS Integers, Sequences, FiniteSets, TLC

VARIABLES
  \* ---- Runtime (Build / ShouldRebuild)
  disk,        \* the paths os.Stat succeeds on
  contexts,    \* Runtime.contexts : id -> absent | nil | context
  results,     \* Runtime.results  : id -> absent | esbuild.BuildResult
  last,        \* what the last Build call returned and did
  nCreated,    \* per id, the contexts esbuild.Context has created
  reached,     \* per id, whether a Build has reached the build step
  goodDeps,    \* per id, the dependency set of the last rebuild without errors
  hadGood,     \* per id, whether some rebuild ended without errors
  \* ---- Worker.Logs
  proc,        \* the worker's process, as far as its output goes
  nWritten,    \* per source, the bytes the process has written
  srcBuf,      \* per source, the bytes in the OS pipe
  pc,          \* per copy loop, its position
  chunk,       \* per copy loop, the bytes of its Write that are not yet read
  wrMu,        \* the shared pipe's write mutex: its holder, or "free"
  wg,          \* the WaitGroup counter
  closerPc,    \* the closing task's position
  writerClosed,\* whether writer.Close() has run
  nClose,      \* how often the shared pipe was closed
  lateWrite,   \* whether a Write began after the pipe was closed
  sawEOF,      \* per copy loop, whether its source returned end-of-stream
  got,         \* the bytes the consumer has read, in order
  consumer,    \* per stream, its consumer: "idle" | "reading" | "eof" | "stopped" | "closed"
  nEOF,        \* how often the consumer was handed end-of-stream
  \* ---- Runtime.Run / Worker.Stop
  ctx,         \* the context given to Run: "live" | "cancelled"
  run,         \* the Run call: not yet made, or what it returned
  spawn,       \* what the operating system did for the spawn
  procs,       \* the processes of the worker's group
  watch,       \* exec.Cmd's goroutine that waits for the context
  signals,     \* the termination requests made so far
  \* ---- Build calls in flight on several goroutines
  task,        \* per goroutine, the position of its Build call and its locals
  mapWriters,  \* per map of the Runtime, the goroutines in the middle of an assignment
  lost,        \* the assignments in flight that a racing access has undone
  fault        \* the Go runtime's fatal error, once it has thrown: the process is gone

buildVars == <<disk, contexts, results, last, nCreated, reached, goodDeps, hadGood>>
logVars   == <<proc, nWritten, srcBuf, pc, chunk, wrMu, wg, closerPc, writerClosed,
               nClose, lateWrite, sawEOF, got, consumer, nEOF>>
runVars   == <<ctx, run, spawn, procs, watch, signals>>
concVars  == <<task, mapWriters, lost, fault>>
vars      == <<buildVars, logVars, runVars, concVars>>

-----------------------------------------------------------------------------
(***************************************************************************)
(* Strings as sequences of atoms                                           *)
(***************************************************************************)

FirstIndex(s, a) ==
  IF \E i \in 1..Len(s) : s[i] = a
  THEN CHOOSE i \in 1..Len(s) : s[i] = a /\ \A j \in 1..(i - 1) : s[j] # a
  ELSE 0

LastIndex(s, a) ==
  IF \E i \in 1..Len(s) : s[i] = a
  THEN CHOOSE i \in 1..Len(s) : s[i] = a /\ \A j \in (i + 1)..Len(s) : s[j] # a
  ELSE 0

\* strings.Split(s, sep) for a one-atom separator
RECURSIVE Split(_, _)
Split(s, sep) ==
  LET i == FirstIndex(s, sep)
  IN  IF i = 0 THEN <<s>>
      ELSE <<SubSeq(s, 1, i - 1)>> \o Split(SubSeq(s, i + 1, Len(s)), sep)

\* strings.Join(parts, sep)
RECURSIVE StringsJoin(_, _)
StringsJoin(parts, sep) ==
  IF parts = <<>> THEN <<>>
  ELSE IF Len(parts) = 1 THEN parts[1]
  ELSE parts[1] \o <<sep>> \o StringsJoin(Tail(parts), sep)

HasPrefix(s, p) == Len(p) <= Len(s) /\ SubSeq(s, 1, Len(p)) = p

\* strings.ReplaceAll(s, old, new): every non-overlapping occurrence, leftmost
\* first.  old is never empty here (it is the extension of a resolved file).
RECURSIVE ReplaceAll(_, _, _)
ReplaceAll(s, old, new) ==
  IF s = <<>> \/ old = <<>> THEN s
  ELSE IF HasPrefix(s, old)
       THEN new \o ReplaceAll(SubSeq(s, Len(old) + 1, Len(s)), old, new)
       ELSE <<Head(s)>> \o ReplaceAll(Tail(s), old, new)

\* filepath.Clean, without ".." elements (no input of the model holds one)
Clean(p) ==
  LET rooted == p # <<>> /\ p[1] = "/"
      elems  == SelectSeq(Split(p, "/"), LAMBDA e : e # <<>> /\ e # <<".">>)
      body   == StringsJoin(elems, "/")
  IN  IF rooted THEN <<"/">> \o body
      ELSE IF body = <<>> THEN <<".">> ELSE body

\* filepath.Join: empty elements are dropped, the result is cleaned
Join(elems) ==
  LET kept == SelectSeq(elems, LAMBDA e : e # <<>>)
  IN  IF kept = <<>> THEN <<>> ELSE Clean(StringsJoin(kept, "/"))

\* filepath.Base (no path of the model ends in a slash)
Base(p) ==
  IF p = <<>> THEN <<".">>
  ELSE SubSeq(p, LastIndex(p, "/") + 1, Len(p))

\* filepath.Dir
Dir(p) == Clean(SubSeq(p, 1, LastIndex(p, "/")))

\* filepath.Ext: from the last "." of the last element, or empty
Ext(p) ==
  LET b == Base(p)
      i == LastIndex(b, ".")
  IN  IF i = 0 THEN <<>> ELSE SubSeq(b, i, Len(b))

\* filepath.Rel(base, target) for a target below base; anything else is the
\* error return (Build makes target by joining onto base, so it is below it)
Rel(base, target) ==
  IF HasPrefix(target, base \o <<"/">>)
  THEN [ok |-> TRUE,  path |-> SubSeq(target, Len(base) + 2, Len(target))]
  ELSE [ok |-> FALSE, path |-> <<>>]

-----------------------------------------------------------------------------
(***************************************************************************)
(* The build inputs                                                        *)
(***************************************************************************)

Ids == {"fnA", "fnB"}

\* input.Project.PathRoot()
PathRoot == <<"/", "proj">>

\* input.Out(): the function's private output directory
Out(id) == <<"/", "proj", "/", "out", "/", id>>

\* the working directory filepath.Abs resolves against
Cwd == PathRoot

NODE_EXTENSIONS ==
  << <<".", "ts">>, <<".", "ts", "x">>, <<".", "m", "ts">>, <<".", "c", "ts">>,
     <<".", "js">>, <<".", "js", "x">>, <<".", "m", "js">>, <<".", "c", "js">> >>

HandlerA     == <<"handlers", "/", "a", ".", "post">>
HandlerDots  == <<"api", ".", "v2", ".", "handler">>
Handlers     == {HandlerA, HandlerDots}

\* lines 254-258: Runtime.getFile's candidate for one extension
Candidate(handler, ext) ==
  LET dir       == Dir(handler)
      fileSplit == Split(Base(handler), ".")
      base      == StringsJoin(SubSeq(fileSplit, 1, Len(fileSplit) - 1), ".")
  IN  Join(<<PathRoot, dir, base \o ext>>)

\* the candidates of every handler of the model, in probing order
Candidates ==
  [h \in Handlers |-> [i \in 1..Len(NODE_EXTENSIONS) |-> Candidate(h, NODE_EXTENSIONS[i])]]

CandidateFiles(h) == {Candidates[h][i] : i \in 1..Len(NODE_EXTENSIONS)}

\* os.Stat(file) returned no error
Stat(d, file) == file \in d

\* Runtime.getFile: the loop over the extensions, from position i on
RECURSIVE getFileFrom(_, _, _)
getFileFrom(handler, d, i) ==
  IF i > Len(NODE_EXTENSIONS) THEN [ok |-> FALSE, file |-> <<>>]
  ELSE LET file == Candidates[handler][i]
       IN  IF Stat(d, file) THEN [ok |-> TRUE, file |-> file]
           ELSE getFileFrom(handler, d, i + 1)

\* a getFile that keeps probing after a hit and so returns the last one
RECURSIVE getFileLastFrom(_, _, _)
getFileLastFrom(handler, d, i) ==
  IF i < 1 THEN [ok |-> FALSE, file |-> <<>>]
  ELSE LET file == Candidates[handler][i]
       IN  IF Stat(d, file) THEN [ok |-> TRUE, file |-> file]
           ELSE getFileLastFrom(handler, d, i - 1)

getFileLast(handler, d) == getFileLastFrom(handler, d, Len(NODE_EXTENSIONS))

getFile(handler, d) == getFileFrom(handler, d, 1)

-----------------------------------------------------------------------------
(***************************************************************************)
(* NodeProperties and json.Unmarshal                                       *)
(*                                                                         *)
(* The properties document is either no JSON at all (syntax = FALSE:        *)
(* Unmarshal sets nothing) or an object whose recognised keys hold a JSON   *)
(* value each: absent, or a value of some type.  A value of the wrong type  *)
(* leaves its field at the zero value and the other fields are still set.   *)
(***************************************************************************)

JAbsent  == [t |-> "absent"]
JStr(s)  == [t |-> "str",  v |-> s]
JBool(b) == [t |-> "bool", v |-> b]
JNum(n)  == [t |-> "num",  v |-> n]
JArr(a)  == [t |-> "arr",  v |-> a]
JObj(o)  == [t |-> "obj",  v |-> o]

ZeroProperties ==
  [ Loader |-> {}, Install |-> <<>>, Banner |-> <<>>, Target |-> "DefaultTarget",
    Minify |-> FALSE, Format |-> "", Splitting |-> FALSE, Plugins |-> "" ]

Field(j, type, zero) == IF j.t = type THEN j.v ELSE zero

Unmarshal(raw) ==
  IF ~raw.syntax THEN ZeroProperties
  ELSE [ Loader    |-> Field(raw.doc.loader,    "obj",  ZeroProperties.Loader),
         Install   |-> Field(raw.doc.install,   "arr",  ZeroProperties.Install),
         Banner    |-> Field(raw.doc.banner,    "str",  ZeroProperties.Banner),
         Target    |-> Field(raw.doc.target,    "num",  ZeroProperties.Target),
         Minify    |-> Field(raw.doc.minify,    "bool", ZeroProperties.Minify),
         Format    |-> Field(raw.doc.format,    "str",  ZeroProperties.Format),
         Splitting |-> Field(raw.doc.splitting, "bool", ZeroProperties.Splitting),
         Plugins   |-> Field(raw.doc.plugins,   "str",  ZeroProperties.Plugins) ]

\* a document Unmarshal reports an error for: no JSON, or a value of the wrong type
IsGarbage(raw) ==
  \/ ~raw.syntax
  \/ raw.doc.loader.t    \notin {"absent", "obj"}
  \/ raw.doc.install.t   \notin {"absent", "arr"}
  \/ raw.doc.banner.t    \notin {"absent", "str"}
  \/ raw.doc.target.t    \notin {"absent", "num"}
  \/ raw.doc.minify.t    \notin {"absent", "bool"}
  \/ raw.doc.format.t    \notin {"absent", "str"}
  \/ raw.doc.splitting.t \notin {"absent", "bool"}
  \/ raw.doc.plugins.t   \notin {"absent", "str"}

loaderMap ==
  [ tag \in {"js", "jsx", "ts", "tsx", "css", "json", "text", "base64", "file",
             "dataurl", "binary"} |->
      CASE tag = "js"      -> "LoaderJS"
        [] tag = "jsx"     -> "LoaderJSX"
        [] tag = "ts"      -> "LoaderTS"
        [] tag = "tsx"     -> "LoaderTSX"
        [] tag = "css"     -> "LoaderCSS"
        [] tag = "json"    -> "LoaderJSON"
        [] tag = "text"    -> "LoaderText"
        [] tag = "base64"  -> "LoaderBase64"
        [] tag = "file"    -> "LoaderFile"
        [] tag = "dataurl" -> "LoaderDataURL"
        [] tag = "binary"  -> "LoaderBinary" ]

\* the loop of lines 121-129: unknown tags are skipped
TranslateLoader(ld) ==
  { <<kv[1], loaderMap[kv[2]]>> : kv \in {x \in ld : x[2] \in DOMAIN loaderMap} }

\* the five lines Build puts before the user's banner
Shim ==
  << <<"import { createRequire as topLevelCreateRequire } from 'module';">>,
     <<"const require = topLevelCreateRequire(import.meta.url);">>,
     <<"import { fileURLToPath as topLevelFileUrlToPath, URL as topLevelURL } from \"url\"">>,
     <<"const __filename = topLevelFileUrlToPath(import.meta.url)">>,
     <<"const __dirname = topLevelFileUrlToPath(new topLevelURL(\".\", import.meta.url))">> >>

MJS == <<".", "m", "js">>
CJS == <<".", "c", "js">>

\* a Build that injects the shim whatever the format
IsESMAlways(properties) == TRUE

\* lines 105-111: the module-format decision
IsESM(properties) == properties.Format # "cjs"

\* a Build that puts the user's banner first
BannerUserFirst(properties) ==
  StringsJoin(<<properties.Banner>> \o Shim, "\n")

\* lines 164-171: strings.Join of the shim and the user's banner
BannerText(properties) ==
  StringsJoin(Shim \o <<properties.Banner>>, "\n")

\* lines 106-111: the output extension
Extension(properties) == IF IsESM(properties) THEN MJS ELSE CJS

\* lines 113-117: the output path, or the error of filepath.Rel
Outfile(id, file, extension) ==
  LET rel == Rel(PathRoot, file)
  IN  [ ok   |-> rel.ok,
        path |-> Join(<<Out(id), ReplaceAll(rel.path, Ext(rel.path), extension)>>) ]

\* every file getFile can return, "" among them
Files == UNION {CandidateFiles(h) : h \in Handlers} \cup {<<>>}

\* the output path of every function, file and extension of the model
Outfiles ==
  [id \in Ids, file \in Files, extension \in {MJS, CJS} |-> Outfile(id, file, extension)]

Target(id, file, properties) == Outfiles[id, file, Extension(properties)]

\* lines 119-180: the esbuild.BuildOptions Build resolves
ResolveOptions(id, file, properties) ==
  [ EntryPoints |-> <<file>>,
    Platform    |-> "PlatformNode",
    External    |-> <<"sharp", "pg-native">> \o properties.Install,
    Plugins     |-> IF properties.Plugins # "" THEN <<properties.Plugins>> ELSE <<>>,
    Loader      |-> TranslateLoader(properties.Loader),
    Splitting   |-> properties.Splitting,
    Outfile     |-> Target(id, file, properties).path,
    Minify      |-> properties.Minify,
    Format      |-> IF IsESM(properties) THEN "FormatESModule" ELSE "FormatCommonJS",
    MainFields  |-> IF IsESM(properties) THEN <<"module", "main">> ELSE <<>>,
    Banner      |-> IF IsESM(properties) THEN {<<"js", BannerText(properties)>>} ELSE {},
    Target      |-> IF properties.Target # "DefaultTarget"
                    THEN properties.Target ELSE "ESNext" ]

-----------------------------------------------------------------------------
(***************************************************************************)
(* The bundler, as far as Build can see it                                 *)
(*                                                                         *)
(* esbuild.Context(options) returns a context or, for options it refuses,  *)
(* nil and an error.  Rebuild returns a BuildResult: without errors it has *)
(* written the output file and its source map and carries the metafile;    *)
(* with errors it has written nothing and its Metafile is the empty        *)
(* string.  Which of these happens is the environment's choice.            *)
(***************************************************************************)

NoLocation == [known |-> FALSE]
At(file, line, col) == [known |-> TRUE, File |-> file, Line |-> line, Column |-> col]

Message(text, loc) == [Text |-> text, Location |-> loc]

\* the keys of a metafile's "inputs", as esbuild writes them
DepsA == { <<"handlers", "/", "a", ".", "ts">>, <<"handlers", "/", "util", ".", "ts">> }
DepsB == { <<"/", "proj", "/", "handlers", "/", "a", ".", "ts">> }

EmptyMetafile == [t |-> "empty"]
MetafileOf(keys) == [t |-> "obj", inputs |-> [t |-> "obj", keys |-> keys]]

GoodResults ==
  { [Errors |-> <<>>, Warnings |-> <<>>, Metafile |-> MetafileOf(DepsA)],
    [Errors |-> <<>>,
     Warnings |-> <<Message("unused import", At("handlers/a.ts", 3, 7))>>,
     Metafile |-> MetafileOf(DepsB)] }

BadResults ==
  { [Errors |-> <<Message("Could not resolve", NoLocation),
                  Message("Unexpected token", At("handlers/a.ts", 1, 4))>>,
     Warnings |-> <<>>, Metafile |-> EmptyMetafile] }

RebuildResults == GoodResults \cup BadResults

\* filepath.Abs
Abs(key) == IF key # <<>> /\ key[1] = "/" THEN Clean(key) ELSE Join(<<Cwd, key>>)

\* the absolute paths a result's dependency report names
Deps(result) ==
  IF result.Metafile.t = "obj" /\ result.Metafile.inputs.t = "obj"
  THEN {Abs(k) : k \in result.Metafile.inputs.keys}
  ELSE {}

\* what the files Rebuild writes for a context are
Written(options) == {options.Outfile, options.Outfile \o <<".", "map">>}

\* fs.FindUp(file, "node_modules"): the nearest directory above file that
\* holds one
Ancestors(file) ==
  {SubSeq(file, 1, i - 1) : i \in {j \in 2..Len(file) : file[j] = "/"}}

NodeModulesAbove ==
  [file \in Files |-> {Join(<<a, <<"node_modules">>>>) : a \in Ancestors(file)}]

FindUp(d, file) ==
  LET hits == NodeModulesAbove[file] \cap d
  IN  IF hits = {} THEN [ok |-> FALSE, path |-> <<>>]
      ELSE [ok |-> TRUE, path |-> CHOOSE a \in hits : \A b \in hits : Len(b) <= Len(a)]

\* where Build links it
Links == [id \in Ids |-> Join(<<Out(id), <<"node_modules">>>>)]

-----------------------------------------------------------------------------
(***************************************************************************)
(* Runtime: New, Build, ShouldRebuild                                      *)
(***************************************************************************)

Absent == [st |-> "absent"]
NilContext == [st |-> "nil"]
Context(options, gen) == [st |-> "ctx", options |-> options, gen |-> gen]
\* a Runtime that drops the entry of an identity whose rebuild failed
StoredIfGood(result) ==
  IF result.Errors = <<>> THEN [st |-> "set", result |-> result] ELSE Absent

\* line 189: the entry of r.results
Stored(result) == [st |-> "set", result |-> result]

NoCall == [kind |-> "none"]

\* lines 190-197: the diagnostics Build returns
RECURSIVE Render(_)
Render(errors) ==
  IF errors = <<>> THEN <<>>
  ELSE LET error == Head(errors)
           text  == IF error.Location.known
                    THEN <<error.Text, " ", error.Location.File, ":",
                           ToString(error.Location.Line), ":",
                           ToString(error.Location.Column)>>
                    ELSE <<error.Text>>
       IN  <<text>> \o Render(Tail(errors))

\* lines 182-186: a Build that makes a context on every call
LookupNever(cs, id) == [ok |-> FALSE, buildContext |-> NilContext]

\* line 182: buildContext, ok := r.contexts[id]
Lookup(cs, id) ==
  IF cs[id].st = "absent" THEN [ok |-> FALSE, buildContext |-> NilContext]
  ELSE [ok |-> TRUE, buildContext |-> cs[id]]

\* a Build that returns the error of json.Unmarshal
AbortsOnGarbage(raw) == IsGarbage(raw)

\* line 97: the error json.Unmarshal returns is dropped
AbortsOnError(raw) == FALSE

\* a Build that goes on without a handler file
FoundAlways(f) == TRUE

\* line 100: the test on getFile's second result
Found(f) == f.ok

\* Runtime.Build.  ctxOK: whether esbuild.Context accepts the options (asked
\* only when it is called); res: what Rebuild returns.
Build(id, handler, raw, ctxOK, res) ==
  LET properties == Unmarshal(raw)
      f          == getFile(handler, disk)
      target     == Target(id, f.file, properties)
      options    == ResolveOptions(id, f.file, properties)
      found      == Lookup(contexts, id)
      made       == IF ctxOK THEN Context(options, nCreated[id] + 1) ELSE NilContext
      buildContext == IF found.ok THEN found.buildContext ELSE made
      contexts1  == IF found.ok THEN contexts ELSE [contexts EXCEPT ![id] = made]
      created    == ~found.ok /\ ctxOK
      nodeModules == FindUp(disk, f.file)
      links      == IF nodeModules.ok THEN {Links[id]} ELSE {}
      call       == [id |-> id, handler |-> handler, raw |-> raw]
  IN
  IF AbortsOnError(raw) THEN
       /\ last' = [kind |-> "error", call |-> call,
                   err |-> <<"json: cannot unmarshal">>, writes |-> {}]
       /\ UNCHANGED <<disk, contexts, results, nCreated, reached, goodDeps, hadGood>>
  ELSE IF ~Found(f) THEN
       \* line 101
       /\ last' = [kind |-> "error", call |-> call,
                   err |-> <<"Handler not found: ", handler>>, writes |-> {}]
       /\ UNCHANGED <<disk, contexts, results, nCreated, reached, goodDeps, hadGood>>
  ELSE IF ~target.ok THEN
       \* line 115
       /\ last' = [kind |-> "error", call |-> call,
                   err |-> <<"Rel: can't make relative">>, writes |-> {}]
       /\ UNCHANGED <<disk, contexts, results, nCreated, reached, goodDeps, hadGood>>
  ELSE IF buildContext.st = "nil" THEN
       \* line 188 on a nil esbuild.BuildContext: a nil dereference
       /\ contexts' = contexts1
       /\ reached' = [reached EXCEPT ![id] = TRUE]
       /\ last' = [kind |-> "panic", call |-> call, options |-> options,
                   created |-> FALSE, reused |-> found.ok, writes |-> {}]
       /\ UNCHANGED <<disk, results, nCreated, goodDeps, hadGood>>
  ELSE
       /\ contexts' = contexts1
       /\ nCreated' = IF created THEN [nCreated EXCEPT ![id] = @ + 1] ELSE nCreated
       /\ reached' = [reached EXCEPT ![id] = TRUE]
       /\ results' = [results EXCEPT ![id] = Stored(res)]
       /\ goodDeps' = IF res.Errors = <<>> THEN [goodDeps EXCEPT ![id] = Deps(res)]
                      ELSE goodDeps
       /\ hadGood' = IF res.Errors = <<>> THEN [hadGood EXCEPT ![id] = TRUE] ELSE hadGood
       /\ last' = [kind |-> "ok", call |-> call, options |-> options,
                   created |-> created, reused |-> found.ok,
                   out |-> [Handler |-> handler, Errors |-> Render(res.Errors)],
                   writes |-> (IF res.Errors = <<>> THEN Written(buildContext.options)
                               ELSE {}) \cup links]
       /\ UNCHANGED disk

\* Runtime.ShouldRebuild: "true", "false", or "panic" when the type assertion
\* of line 277 fails.  json.Unmarshal into the map fails on text that is not
\* JSON and on JSON that is no object; it accepts null and leaves the map
\* empty.
ShouldRebuild(functionID, file) ==
  LET r == results[functionID]
  IN  IF r.st = "absent" THEN "false"
      ELSE IF r.result.Metafile.t \notin {"obj", "null"} THEN "false"
      ELSE IF r.result.Metafile.t = "null" THEN "panic"
      ELSE IF r.result.Metafile.inputs.t # "obj" THEN "panic"
      ELSE IF \E key \in r.result.Metafile.inputs.keys : Abs(key) = file
           THEN "true" ELSE "false"

-----------------------------------------------------------------------------
(***************************************************************************)
(* Specifications of the Runtime                                           *)
(***************************************************************************)

NodeModules  == <<"/", "proj", "/", "node_modules">>

EmptyDoc ==
  [ loader |-> JAbsent, install |-> JAbsent, banner |-> JAbsent, target |-> JAbsent,
    minify |-> JAbsent, format |-> JAbsent, splitting |-> JAbsent, plugins |-> JAbsent ]

UserBanner == <<"/* user banner */">>

\* "{}"
RawEmpty   == [syntax |-> TRUE, doc |-> EmptyDoc]
\* a document that is no JSON
RawGarbage == [syntax |-> FALSE, doc |-> EmptyDoc]
\* {"format":"cjs","banner":...,"install":["pg"],"loader":{".txt":"text",".x":"nope"}}
RawCjs ==
  [syntax |-> TRUE,
   doc |-> [EmptyDoc EXCEPT !.format = JStr("cjs"), !.banner = JStr(UserBanner),
                            !.install = JArr(<<"pg">>),
                            !.loader = JObj({<<".txt", "text">>, <<".x", "nope">>})]]
\* {"format":7,"banner":...,"minify":true}: one field of the wrong type
RawPartial ==
  [syntax |-> TRUE,
   doc |-> [EmptyDoc EXCEPT !.format = JNum("7"), !.banner = JStr(UserBanner),
                            !.minify = JBool(TRUE)]]

RawSamples == {RawEmpty, RawGarbage, RawCjs, RawPartial}

\* New()
\* no Build call is in flight
NoTasks ==
  /\ task = [g \in Ids |-> [pc |-> "idle"]]
  /\ mapWriters = [m \in {"contexts", "results"} |-> {}]
  /\ lost = {}
  /\ fault = "none"

InitRuntime ==
  /\ NoTasks
  /\ contexts = [id \in Ids |-> Absent]
  /\ results  = [id \in Ids |-> Absent]
  /\ last     = NoCall
  /\ nCreated = [id \in Ids |-> 0]
  /\ reached  = [id \in Ids |-> FALSE]
  /\ goodDeps = [id \in Ids |-> {}]
  /\ hadGood  = [id \in Ids |-> FALSE]

\* no worker: the variables of Logs and Run at rest
NoWorker ==
  /\ proc = "none" /\ nWritten = <<>> /\ srcBuf = <<>> /\ pc = <<>> /\ chunk = <<>>
  /\ wrMu = "free" /\ wg = 0 /\ closerPc = "idle" /\ writerClosed = FALSE
  /\ nClose = 0 /\ lateWrite = FALSE /\ sawEOF = <<>> /\ got = <<>>
  /\ consumer = "idle" /\ nEOF = 0

NoRun ==
  /\ ctx = "live" /\ run = [st |-> "none"] /\ spawn = [st |-> "none"]
  /\ procs = <<>> /\ watch = "none" /\ signals = {}

SourceFiles == {Candidates[HandlerA][1], NodeModules}

InitBuild ==
  /\ InitRuntime
  /\ disk \in SUBSET SourceFiles
  /\ NoWorker /\ NoRun

\* esbuild.Context is called only for an identity without an entry
CreationOutcomes(id) == IF contexts[id].st = "absent" THEN BOOLEAN ELSE {TRUE}

\* a file of the source tree appears or goes away between calls
FsChange ==
  /\ \E file \in SourceFiles :
        disk' = IF file \in disk THEN disk \ {file} ELSE disk \cup {file}
  /\ UNCHANGED <<contexts, results, last, nCreated, reached, goodDeps, hadGood>>
  /\ UNCHANGED <<logVars, runVars, concVars>>

BuildCall ==
  /\ \E id \in Ids, raw \in RawSamples, res \in RebuildResults :
       \E ctxOK \in CreationOutcomes(id) : Build(id, HandlerA, raw, ctxOK, res)
  /\ UNCHANGED <<logVars, runVars, concVars>>

NextBuild == BuildCall \/ FsChange

SpecBuild == InitBuild /\ [][NextBuild]_vars

-----------------------------------------------------------------------------
(***************************************************************************)
(* Claims about Build and ShouldRebuild (SpecBuild)                         *)
(***************************************************************************)

\* a step of Build for identity id (FsChange is the only other step, and it
\* changes disk)
BuildStepFor(id) == disk' = disk /\ last'.kind # "none" /\ last'.call.id = id

Resolvable(handler, d) == CandidateFiles(handler) \cap d # {}

\* the absolute paths ShouldRebuild is asked about
AskedPaths ==
  { <<"/", "proj", "/", "handlers", "/", "a", ".", "ts">>,
    <<"/", "proj", "/", "handlers", "/", "util", ".", "ts">>,
    <<"/", "proj", "/", "handlers", "/", "other", ".", "ts">> }

\* C3: after any sequence of Build calls, ShouldRebuild(id, path) is true
\* exactly when path is in the dependency set of the last rebuild of id that
\* ended without errors, and false for an identity that never had one.
C3_ShouldRebuildFollowsLastSuccessfulBuild ==
  \A id \in Ids, path \in AskedPaths :
     /\ (ShouldRebuild(id, path) = "true") <=> (hadGood[id] /\ path \in goodDeps[id])
     /\ ~hadGood[id] => ShouldRebuild(id, path) = "false"

\* C4: at most one context is ever created per identity; it is created only
\* by the first Build of that identity that reaches the build step, and a
\* Build that finds a context leaves it in place and creates none.
C4_AtMostOneContextPerIdentity ==
  /\ [](\A id \in Ids : nCreated[id] <= 1)
  /\ [][\A id \in Ids :
          /\ nCreated'[id] > nCreated[id] => ~reached[id] /\ BuildStepFor(id)
          /\ (BuildStepFor(id) /\ ~reached[id] /\ last'.kind = "ok")
                => nCreated'[id] = 1 /\ last'.created /\ contexts'[id].st = "ctx"
          /\ contexts[id].st = "ctx"
                => contexts'[id] = contexts[id] /\ nCreated'[id] = nCreated[id]
          /\ (BuildStepFor(id) /\ contexts[id].st = "ctx" /\ last'.kind = "ok")
                => last'.reused /\ ~last'.created
        ]_vars

\* a later Build has reused the one context of its identity
C4_Witness ==
  /\ last.kind = "ok" /\ last.reused
  /\ nCreated[last.call.id] = 1 /\ contexts[last.call.id].st = "ctx"

\* C5: a Build for an identity that has a context leaves the context's
\* configuration as the first Build fixed it, whatever properties it is
\* given, and succeeds (its handler file being there) also when they are
\* garbage or partial.
C5_LaterBuildKeepsConfiguration ==
  [][\A id \in Ids :
        (BuildStepFor(id) /\ contexts[id].st = "ctx")
          => /\ contexts'[id].st = "ctx"
             /\ contexts'[id].options = contexts[id].options
             /\ Resolvable(last'.call.handler, disk) => last'.kind = "ok"
    ]_vars

\* a Build with garbage properties, which resolve to another configuration
\* than the context's, has succeeded on the existing context
C5_Witness ==
  /\ last.kind = "ok" /\ last.reused /\ IsGarbage(last.call.raw)
  /\ last.options # contexts[last.call.id].options

\* C8: when no file exists for the handler under any extension, Build fails
\* with the handler-not-found error that names the handler, writes nothing,
\* and leaves the contexts and results of every identity as they were.
C8_HandlerNotFoundChangesNothing ==
  [][\A id \in Ids :
        (BuildStepFor(id) /\ ~Resolvable(last'.call.handler, disk))
          => /\ last'.kind = "error"
             /\ last'.err = <<"Handler not found: ", last'.call.handler>>
             /\ last'.writes = {}
             /\ contexts' = contexts /\ results' = results
    ]_vars

\* Build has failed so for an identity that has a context and a result
C8_Witness ==
  /\ last.kind = "error" /\ ~Resolvable(last.call.handler, disk)
  /\ contexts[last.call.id].st = "ctx" /\ results[last.call.id].st = "set"

-----------------------------------------------------------------------------
(***************************************************************************)
(* Handler resolution (SpecResolve): every set of candidate files          *)
(***************************************************************************)

InitResolve ==
  /\ InitRuntime
  /\ disk \in UNION {SUBSET CandidateFiles(h) : h \in Handlers}
  /\ NoWorker /\ NoRun

ResolveCall ==
  /\ \E h \in Handlers, res \in GoodResults : Build("fnA", h, RawEmpty, TRUE, res)
  /\ UNCHANGED <<logVars, runVars, concVars>>

NextResolve == ResolveCall

SpecResolve == InitResolve /\ [][NextResolve]_vars

\* the order the claim names
ClaimedOrder ==
  << <<".", "ts">>, <<".", "ts", "x">>, <<".", "m", "ts">>, <<".", "c", "ts">>,
     <<".", "js">>, <<".", "js", "x">>, <<".", "m", "js">>, <<".", "c", "js">> >>

Rank(ext) == CHOOSE i \in 1..Len(ClaimedOrder) : ClaimedOrder[i] = ext

\* C9: Build resolves the handler to the existing candidate whose extension
\* comes first in .ts, .tsx, .mts, .cts, .js, .jsx, .mjs, .cjs, and fails with
\* handler-not-found exactly when no candidate exists.
C9_FirstExistingExtensionWins ==
  last.kind # "none" =>
    LET existing == CandidateFiles(last.call.handler) \cap disk
    IN  IF existing = {}
        THEN /\ last.kind = "error"
             /\ last.err = <<"Handler not found: ", last.call.handler>>
        ELSE /\ last.kind = "ok"
             /\ last.options.EntryPoints[1] \in existing
             /\ \A g \in existing :
                   Rank(Ext(last.options.EntryPoints[1])) <= Rank(Ext(g))

\* several candidates exist, none of them the .ts one, and Build took one
C9_Witness ==
  /\ last.kind = "ok"
  /\ Cardinality(CandidateFiles(last.call.handler) \cap disk) >= 3
  /\ Candidates[last.call.handler][1] \notin disk
  /\ Ext(last.options.EntryPoints[1]) = <<".", "m", "ts">>

-----------------------------------------------------------------------------
(***************************************************************************)
(* The configuration of a first build (SpecConfig): every properties       *)
(* document over the recognised keys                                       *)
(***************************************************************************)

RawAll ==
  { [syntax |-> TRUE,
     doc |-> [ loader |-> l, install |-> i, banner |-> b, target |-> t, minify |-> m,
               format |-> f, splitting |-> sp, plugins |-> pl ]] :
      l  \in {JAbsent, JObj({<<".txt", "text">>, <<".x", "nope">>})},
      i  \in {JAbsent, JArr(<<"pg">>)},
      b  \in {JAbsent, JStr(UserBanner)},
      t  \in {JAbsent, JNum("ES2020")},
      m  \in {JAbsent, JBool(TRUE)},
      f  \in {JAbsent, JStr("esm"), JStr("cjs"), JStr("iife"), JNum("7")},
      sp \in {JAbsent, JBool(TRUE)},
      pl \in {JAbsent, JStr("plugin.mjs")} }
  \cup {RawGarbage}

InitConfig ==
  /\ InitRuntime
  /\ disk \in { {Candidates[HandlerA][1]},
                {Candidates[HandlerDots][2], Candidates[HandlerDots][5], NodeModules} }
  /\ NoWorker /\ NoRun

\* the first Build on a new Runtime
FirstBuild ==
  /\ last = NoCall
  /\ \E id \in Ids, h \in Handlers, raw \in RawAll, ctxOK \in BOOLEAN :
        \E res \in RebuildResults : Build(id, h, raw, ctxOK, res)
  /\ UNCHANGED <<logVars, runVars, concVars>>

NextConfig == FirstBuild

SpecConfig == InitConfig /\ [][NextConfig]_vars

ShimText == StringsJoin(Shim, "\n")

ShimLines == {Shim[i][1] : i \in 1..Len(Shim)}

\* C10: in the configuration a first Build resolves, format unset or "esm"
\* gives the output extension .mjs and a banner that is the shim followed by
\* the user's banner; format "cjs" gives .cjs and a banner without the shim.
C10_FormatDecidesExtensionAndShim ==
  (last.kind \in {"ok", "panic"} /\ ~last.reused) =>
    LET raw    == last.call.raw
        o      == last.options
        format == raw.doc.format
        user   == IF raw.syntax /\ raw.doc.banner.t = "str" THEN raw.doc.banner.v ELSE <<>>
    IN  /\ (~raw.syntax \/ format.t = "absent" \/ format = JStr("esm"))
             => /\ Ext(o.Outfile) = <<".", "m", "js">>
                /\ o.Banner = {<<"js", ShimText \o <<"\n">> \o user>>}
        /\ (raw.syntax /\ format = JStr("cjs"))
             => /\ Ext(o.Outfile) = <<".", "c", "js">>
                /\ \A b \in o.Banner : \A i \in 1..Len(b[2]) : b[2][i] \notin ShimLines

\* a first Build with format "cjs" and a user banner has made its context
C10_Witness ==
  /\ last.kind = "ok" /\ last.created
  /\ last.call.raw.doc.format = JStr("cjs")
  /\ last.call.raw.doc.banner = JStr(UserBanner)
  /\ contexts[last.call.id].options = last.options

-----------------------------------------------------------------------------
(***************************************************************************)
(* Worker.Logs                                                             *)
(*                                                                         *)
(* The worker's process writes bytes to its standard output and standard   *)
(* error, two OS pipes whose read ends are w.stdout and w.stderr.  A call  *)
(* of Logs makes an io.Pipe and starts three goroutines: one io.Copy per   *)
(* source and the closing task.  A byte is <<source, number>>.             *)
(*                                                                         *)
(* io.Copy: read what the source has (at most CopyBuf bytes), Write it to  *)
(* the pipe, again; it ends when the source is at end-of-stream or a Write *)
(* fails.  PipeWriter.Write: fail if the pipe is closed, else take the     *)
(* write mutex and hand the bytes to Reads until none is left.             *)
(* PipeReader.Read: end-of-stream if the pipe is closed, else take bytes   *)
(* of the Write in progress.                                               *)
(***************************************************************************)

MaxBytes == 3   \* the bytes the process writes per source, at most
PipeCap  == 2   \* the bytes an OS pipe holds
CopyBuf  == 2   \* the bytes one Read of io.Copy takes

Sources == {"stdout", "stderr"}
Streams == {"first", "second"}

Min(a, b) == IF a < b THEN a ELSE b

\* a worker whose process runs, before any call of Logs
InitLogs ==
  /\ proc = "running"
  /\ nWritten = [s \in Sources |-> 0]
  /\ srcBuf = [s \in Sources |-> <<>>]
  /\ pc = [k \in Streams |-> [s \in Sources |-> "idle"]]
  /\ chunk = [k \in Streams |-> [s \in Sources |-> <<>>]]
  /\ wrMu = [k \in Streams |-> "free"]
  /\ wg = [k \in Streams |-> 0]
  /\ closerPc = [k \in Streams |-> "idle"]
  /\ writerClosed = [k \in Streams |-> FALSE]
  /\ nClose = [k \in Streams |-> 0]
  /\ lateWrite = [k \in Streams |-> FALSE]
  /\ sawEOF = [k \in Streams |-> [s \in Sources |-> FALSE]]
  /\ got = [k \in Streams |-> <<>>]
  /\ consumer = [k \in Streams |-> "idle"]
  /\ nEOF = [k \in Streams |-> 0]
  /\ InitRuntime /\ disk = {} /\ NoRun

\* the process writes one byte to a source
ProcWrite(s) ==
  /\ proc = "running"
  /\ nWritten[s] < MaxBytes
  /\ Len(srcBuf[s]) < PipeCap
  /\ nWritten' = [nWritten EXCEPT ![s] = @ + 1]
  /\ srcBuf' = [srcBuf EXCEPT ![s] = Append(@, <<s, nWritten[s] + 1>>)]
  /\ UNCHANGED <<proc, pc, chunk, wrMu, wg, closerPc, writerClosed, nClose, lateWrite,
                 sawEOF, got, consumer, nEOF>>
  /\ UNCHANGED <<buildVars, runVars, concVars>>

\* the process exits: the write ends of both pipes are closed
ProcExit ==
  /\ proc = "running"
  /\ proc' = "exited"
  /\ UNCHANGED <<nWritten, srcBuf, pc, chunk, wrMu, wg, closerPc, writerClosed, nClose,
                 lateWrite, sawEOF, got, consumer, nEOF>>
  /\ UNCHANGED <<buildVars, runVars, concVars>>

\* lines 60-78: Logs() makes the pipe, adds 2 to the WaitGroup, starts the
\* three goroutines and returns the reader
Logs(k) ==
  /\ consumer[k] = "idle"
  /\ wg' = [wg EXCEPT ![k] = 2]
  /\ pc' = [pc EXCEPT ![k] = [s \in Sources |-> "read"]]
  /\ closerPc' = [closerPc EXCEPT ![k] = "wait"]
  /\ consumer' = [consumer EXCEPT ![k] = "reading"]
  /\ UNCHANGED <<proc, nWritten, srcBuf, chunk, wrMu, writerClosed, nClose, lateWrite,
                 sawEOF, got, nEOF>>
  /\ UNCHANGED <<buildVars, runVars, concVars>>

\* the pipe's done channel is closed: writer.Close() has run, or the consumer
\* has closed the reader
PipeClosed(k) == writerClosed[k] \/ consumer[k] = "closed"

\* a source that reports end-of-stream as soon as it has nothing to give
SourceDry(s) == srcBuf[s] = <<>>

\* Read on w.stdout / w.stderr returns end-of-stream: nothing is buffered
\* and the write end is closed
SourceEOF(s) == srcBuf[s] = <<>> /\ proc = "exited"

\* lines 66 / 70, io.Copy's Read: bytes, or end-of-stream and the deferred
\* wg.Done()
CopyRead(k, s) ==
  /\ pc[k][s] = "read"
  /\ srcBuf[s] # <<>> \/ SourceEOF(s)
  /\ IF SourceEOF(s)
     THEN /\ pc' = [pc EXCEPT ![k][s] = "done"]
          /\ sawEOF' = [sawEOF EXCEPT ![k][s] = TRUE]
          /\ wg' = [wg EXCEPT ![k] = @ - 1]
          /\ UNCHANGED <<srcBuf, chunk>>
     ELSE LET n == Min(CopyBuf, Len(srcBuf[s]))
          IN  /\ chunk' = [chunk EXCEPT ![k][s] = SubSeq(srcBuf[s], 1, n)]
              /\ srcBuf' = [srcBuf EXCEPT ![s] = SubSeq(@, n + 1, Len(@))]
              /\ pc' = [pc EXCEPT ![k][s] = "lock"]
              /\ UNCHANGED <<sawEOF, wg>>
  /\ UNCHANGED <<proc, nWritten, wrMu, closerPc, writerClosed, nClose, lateWrite, got,
                 consumer, nEOF>>
  /\ UNCHANGED <<buildVars, runVars, concVars>>

\* io.Copy's Write begins: on a closed pipe it fails and the loop ends, else
\* it takes the write mutex
CopyLock(k, s) ==
  /\ pc[k][s] = "lock"
  /\ PipeClosed(k) \/ wrMu[k] = "free"
  /\ IF PipeClosed(k)
     THEN /\ pc' = [pc EXCEPT ![k][s] = "done"]
          /\ wg' = [wg EXCEPT ![k] = @ - 1]
          /\ lateWrite' = [lateWrite EXCEPT ![k] = TRUE]
          /\ UNCHANGED wrMu
     ELSE /\ wrMu' = [wrMu EXCEPT ![k] = s]
          /\ pc' = [pc EXCEPT ![k][s] = "write"]
          /\ UNCHANGED <<wg, lateWrite>>
  /\ UNCHANGED <<proc, nWritten, srcBuf, chunk, closerPc, writerClosed, nClose, sawEOF,
                 got, consumer, nEOF>>
  /\ UNCHANGED <<buildVars, runVars, concVars>>

\* io.Copy's Write returns: every byte was read, or the pipe was closed
\* under it
CopyWritten(k, s) ==
  /\ pc[k][s] = "write"
  /\ chunk[k][s] = <<>> \/ PipeClosed(k)
  /\ wrMu' = [wrMu EXCEPT ![k] = "free"]
  /\ IF chunk[k][s] = <<>>
     THEN /\ pc' = [pc EXCEPT ![k][s] = "read"]
          /\ UNCHANGED <<wg, lateWrite>>
     ELSE /\ pc' = [pc EXCEPT ![k][s] = "done"]
          /\ wg' = [wg EXCEPT ![k] = @ - 1]
          /\ lateWrite' = [lateWrite EXCEPT ![k] = TRUE]
  /\ UNCHANGED <<proc, nWritten, srcBuf, chunk, closerPc, writerClosed, nClose, sawEOF,
                 got, consumer, nEOF>>
  /\ UNCHANGED <<buildVars, runVars, concVars>>

\* a closing task that waits for one of the two loops only
OneLoopDone(k) == wg[k] <= 1

\* line 74: wg.Wait() returns
BothLoopsDone(k) == wg[k] = 0

\* lines 73-76: the closing task closes the writer once Wait has returned
CloserClose(k) ==
  /\ closerPc[k] = "wait"
  /\ BothLoopsDone(k)
  /\ writerClosed' = [writerClosed EXCEPT ![k] = TRUE]
  /\ nClose' = [nClose EXCEPT ![k] = @ + 1]
  /\ closerPc' = [closerPc EXCEPT ![k] = "done"]
  /\ UNCHANGED <<proc, nWritten, srcBuf, pc, chunk, wrMu, wg, lateWrite, sawEOF, got,
                 consumer, nEOF>>
  /\ UNCHANGED <<buildVars, runVars, concVars>>

\* the loop whose Write is in progress on stream k, if any
Writing(k) == {s \in Sources : pc[k][s] = "write" /\ chunk[k][s] # <<>>}

\* the consumer's Read on the returned reader: end-of-stream on a closed pipe
\* (the consumer then stops), else some bytes of the Write in progress
ConsumerRead(k) ==
  /\ consumer[k] = "reading"
  /\ writerClosed[k] \/ Writing(k) # {}
  /\ IF writerClosed[k]
     THEN /\ consumer' = [consumer EXCEPT ![k] = "eof"]
          /\ nEOF' = [nEOF EXCEPT ![k] = @ + 1]
          /\ UNCHANGED <<got, chunk>>
     ELSE /\ \E s \in Writing(k), n \in 1..MaxBytes :
               /\ n <= Len(chunk[k][s])
               /\ got' = [got EXCEPT ![k] = @ \o SubSeq(chunk[k][s], 1, n)]
               /\ chunk' = [chunk EXCEPT ![k][s] = SubSeq(@, n + 1, Len(@))]
          /\ UNCHANGED <<consumer, nEOF>>
  /\ UNCHANGED <<proc, nWritten, srcBuf, pc, wrMu, wg, closerPc, writerClosed, nClose,
                 lateWrite, sawEOF>>
  /\ UNCHANGED <<buildVars, runVars, concVars>>

\* one call of Logs, one consumer that reads to the end
NextLogs ==
  \/ \E s \in Sources : ProcWrite(s)
  \/ ProcExit
  \/ Logs("first")
  \/ \E s \in Sources : CopyRead("first", s)
  \/ \E s \in Sources : CopyLock("first", s)
  \/ \E s \in Sources : CopyWritten("first", s)
  \/ CloserClose("first")
  \/ ConsumerRead("first")

SpecLogs == InitLogs /\ [][NextLogs]_vars

\* the goroutines are scheduled, the mutex is handed on, the consumer keeps
\* reading and the process exits
FairLogs ==
  /\ WF_vars(ProcExit)
  /\ \A s \in Sources : WF_vars(CopyRead("first", s))
  /\ \A s \in Sources : SF_vars(CopyLock("first", s))
  /\ \A s \in Sources : WF_vars(CopyWritten("first", s))
  /\ WF_vars(CloserClose("first"))
  /\ WF_vars(ConsumerRead("first"))

FairSpecLogs == SpecLogs /\ FairLogs

-----------------------------------------------------------------------------
(***************************************************************************)
(* Claims about Logs (SpecLogs, FairSpecLogs)                               *)
(***************************************************************************)

\* the bytes of got[k] that came from source s, in the order they were read
FromSource(k, s) == SelectSeq(got[k], LAMBDA b : b[1] = s)

\* every byte the process wrote to s, in the order it wrote them
WrittenTo(s) == [i \in 1..nWritten[s] |-> <<s, i>>]

\* stream k has delivered every byte of both sources, each once
Delivered(k) ==
  /\ \A s \in Sources : FromSource(k, s) = WrittenTo(s)
  /\ Len(got[k]) = nWritten["stdout"] + nWritten["stderr"]

\* C1: the shared pipe's writer is closed only after both copy loops have
\* finished, each at the end-of-stream of its source; the pipe is closed
\* once, the consumer is handed end-of-stream once and only after the close,
\* and no Write begins or is cut short once the pipe is closed.
C1_ClosedOnlyAfterBothLoops ==
  \A k \in Streams :
     /\ writerClosed[k] => \A s \in Sources : pc[k][s] = "done" /\ sawEOF[k][s]
     /\ nClose[k] <= 1
     /\ nEOF[k] <= 1
     /\ (consumer[k] = "eof") <=> (nEOF[k] = 1)
     /\ consumer[k] = "eof" => writerClosed[k]
     /\ ~lateWrite[k]

\* the consumer has read bytes of both sources and then end-of-stream
C1_Witness ==
  /\ consumer["first"] = "eof" /\ nClose["first"] = 1
  /\ \A s \in Sources : FromSource("first", s) # <<>>
  /\ got["first"][1][1] = "stderr"

\* C2: once Logs has returned, a consumer that keeps reading is eventually
\* handed end-of-stream, having received by then every byte the process
\* wrote to either source exactly once.
C2_AllBytesThenEndOfStream ==
  (consumer["first"] = "reading") ~> (consumer["first"] = "eof" /\ Delivered("first"))

\* the process wrote to both sources and the consumer has all of it and
\* end-of-stream
C2_Witness ==
  /\ consumer["first"] = "eof" /\ Delivered("first")
  /\ \A s \in Sources : nWritten[s] = MaxBytes

-----------------------------------------------------------------------------
(***************************************************************************)
(* Runtime.Run and Worker.Stop                                             *)
(*                                                                         *)
(* Run builds an exec.Cmd bound to the caller's context, asks for the two  *)
(* output pipes and starts the process; it drops the error of each of the  *)
(* three calls.  Start fails when the program cannot be run or when the    *)
(* context is already done; it then leaves cmd.Process nil and closes the  *)
(* pipes.  After a successful Start a goroutine of exec.Cmd waits for the  *)
(* context and calls cmd.Cancel when it is done.                           *)
(*                                                                         *)
(* The worker's process ("child") may start a process of its own           *)
(* ("grand"), which inherits its process group.                            *)
(***************************************************************************)

Procs == {"child", "grand"}

\* util.SetProcessGroupID(cmd): the child leads a new process group, and
\* what it spawns is in that group
ProcessGroup == Procs

\* util.TerminateProcess(pid): every live process of the group of pid is sent
\* the termination signal
TerminateProcess(ps) == [p \in Procs |-> IF p \in ProcessGroup /\ ps[p] = "running"
                                          THEN "signalled" ELSE ps[p]]

\* exec.Cmd's own Cancel: the direct child is killed
KillChild(ps) == [p \in Procs |-> IF p = "child" /\ ps[p] = "running"
                                   THEN "signalled" ELSE ps[p]]

\* lines 229-231: cmd.Cancel
Cancel(ps) == TerminateProcess(ps)

\* what the operating system can do for one spawn
SpawnOutcomes == [stdout : BOOLEAN, stderr : BOOLEAN, start : BOOLEAN]

NoProcs == [p \in Procs |-> "none"]

InitRun ==
  /\ ctx = "live"
  /\ run = [st |-> "none"]
  /\ spawn = [st |-> "none"]
  /\ procs = NoProcs
  /\ watch = "none"
  /\ signals = {}
  /\ InitRuntime /\ disk = {} /\ NoWorker

\* the caller cancels the context
CancelContext ==
  /\ ctx = "live"
  /\ ctx' = "cancelled"
  /\ UNCHANGED <<run, spawn, procs, watch, signals>>
  /\ UNCHANGED <<buildVars, logVars, concVars>>

\* line 246: the error Run returns
RunError(sp) == "nil"

\* Runtime.Run
Run(sp) ==
  LET started == sp.start /\ ctx = "live"
      pipe(ok) == IF ~ok THEN "nil" ELSE IF started THEN "open" ELSE "closed"
      outcome == [st |-> "done", stdout |-> sp.stdout, stderr |-> sp.stderr,
                  started |-> started]
  IN  /\ run.st = "none"
      /\ spawn' = outcome
      /\ procs' = IF started THEN [procs EXCEPT !["child"] = "running"] ELSE procs
      /\ watch' = IF started THEN "waiting" ELSE "none"
      /\ run' = [st |-> "returned", err |-> RunError(outcome),
                 worker |-> [stdout |-> pipe(sp.stdout), stderr |-> pipe(sp.stderr),
                             process |-> IF started THEN "child" ELSE "nil"],
                 stop |-> "no"]
      /\ UNCHANGED <<ctx, signals>>
      /\ UNCHANGED <<buildVars, logVars, concVars>>

\* the worker's process starts a process of its own
Fork ==
  /\ procs["child"] = "running"
  /\ procs["grand"] = "none"
  /\ procs' = [procs EXCEPT !["grand"] = "running"]
  /\ UNCHANGED <<ctx, run, spawn, watch, signals>>
  /\ UNCHANGED <<buildVars, logVars, concVars>>

\* a process ends by itself
Exit(p) ==
  /\ procs[p] = "running"
  /\ procs' = [procs EXCEPT ![p] = "exited"]
  /\ UNCHANGED <<ctx, run, spawn, watch, signals>>
  /\ UNCHANGED <<buildVars, logVars, concVars>>

\* a process that was sent the termination signal ends
Die(p) ==
  /\ procs[p] = "signalled"
  /\ procs' = [procs EXCEPT ![p] = "exited"]
  /\ UNCHANGED <<ctx, run, spawn, watch, signals>>
  /\ UNCHANGED <<buildVars, logVars, concVars>>

\* exec.Cmd's goroutine sees the context done and calls cmd.Cancel
WatchCtx ==
  /\ watch = "waiting"
  /\ ctx = "cancelled"
  /\ procs' = Cancel(procs)
  /\ signals' = signals \cup {"cancel"}
  /\ watch' = "done"
  /\ UNCHANGED <<ctx, run, spawn>>
  /\ UNCHANGED <<buildVars, logVars, concVars>>

\* lines 54-57: Worker.Stop; w.cmd.Process is nil when Start failed
Stop ==
  /\ run.st = "returned"
  /\ run.stop = "no"
  /\ IF run.worker.process = "nil"
     THEN /\ run' = [run EXCEPT !.stop = "panic"]
          /\ UNCHANGED <<procs, signals>>
     ELSE /\ run' = [run EXCEPT !.stop = "returned"]
          /\ procs' = TerminateProcess(procs)
          /\ signals' = signals \cup {"stop"}
  /\ UNCHANGED <<ctx, spawn, watch>>
  /\ UNCHANGED <<buildVars, logVars, concVars>>

NextRun ==
  \/ CancelContext
  \/ \E sp \in SpawnOutcomes : Run(sp)
  \/ Fork
  \/ \E p \in Procs : Exit(p)
  \/ \E p \in Procs : Die(p)
  \/ WatchCtx
  \/ Stop

SpecRun == InitRun /\ [][NextRun]_vars

\* exec.Cmd's goroutine is scheduled, and a signalled process ends
FairRun ==
  /\ WF_vars(WatchCtx)
  /\ \A p \in Procs : WF_vars(Die(p))

FairSpecRun == SpecRun /\ FairRun

-----------------------------------------------------------------------------
(***************************************************************************)
(* Claims about Run (SpecRun, FairSpecRun)                                  *)
(***************************************************************************)

SpawnFailed == spawn.st = "done" /\ ~(spawn.stdout /\ spawn.stderr /\ spawn.started)

\* C6: when the process cannot be started or one of its output pipes cannot
\* be created, Run returns an error instead of a Worker with a nil error.
C6_SpawnFailureIsReturned ==
  (run.st = "returned" /\ SpawnFailed) => run.err # "nil"

\* no process of the worker's group runs or is about to end
GroupGone == \A p \in ProcessGroup : procs[p] \in {"none", "exited"}

\* C7: for a worker whose process Run has started, cancelling the context
\* leads to cmd.Cancel requesting the termination of the whole process
\* group, after which no process of the group is running.
C7_CancelTerminatesProcessGroup ==
  (ctx = "cancelled" /\ run.st = "returned" /\ run.worker.process # "nil")
     ~> ("cancel" \in signals /\ GroupGone)

\* the context was cancelled while the worker's process and a process it
\* started were running, and both are gone without Stop
C7_Witness ==
  /\ ctx = "cancelled" /\ signals = {"cancel"} /\ watch = "done"
  /\ \A p \in Procs : procs[p] = "exited"

-----------------------------------------------------------------------------
(***************************************************************************)
(* ShouldRebuild over every shape of dependency report (SpecReport)        *)
(*                                                                         *)
(* result.Metafile is text the bundler hands back; ShouldRebuild parses it *)
(* on each call.  Here Rebuild may return, besides the results above, a    *)
(* result whose Metafile is text that is not JSON, JSON that is no object, *)
(* or an object whose "inputs" is missing or is no object.                 *)
(***************************************************************************)

ReportShapes ==
  { [t |-> "text"], [t |-> "arr"], [t |-> "null"],
    [t |-> "obj", inputs |-> [t |-> "absent"]],
    [t |-> "obj", inputs |-> [t |-> "null"]],
    [t |-> "obj", inputs |-> [t |-> "arr"]],
    [t |-> "obj", inputs |-> [t |-> "obj", keys |-> {}]] }

ReportResults ==
  RebuildResults \cup
  { [Errors |-> <<>>, Warnings |-> <<>>, Metafile |-> m] : m \in ReportShapes }

InitReport ==
  /\ InitRuntime /\ NoWorker /\ NoRun
  /\ disk = {Candidates[HandlerA][1]}

\* Build, with any report
ReportBuild ==
  /\ \E id \in Ids, res \in ReportResults :
       \E ctxOK \in CreationOutcomes(id) : Build(id, HandlerA, RawEmpty, ctxOK, res)
  /\ UNCHANGED <<logVars, runVars, concVars>>

\* a call of ShouldRebuild and its outcome
Ask(id, path) ==
  /\ last' = [kind |-> "asked", call |-> [id |-> id, file |-> path],
              answer |-> ShouldRebuild(id, path)]
  /\ UNCHANGED <<disk, contexts, results, nCreated, reached, goodDeps, hadGood>>
  /\ UNCHANGED <<logVars, runVars, concVars>>

NextReport ==
  \/ ReportBuild
  \/ \E id \in Ids, path \in AskedPaths : Ask(id, path)

SpecReport == InitReport /\ [][NextReport]_vars

\* the stored result of id has a report with an "inputs" object
UsableReport(id) ==
  /\ results[id].st = "set"
  /\ results[id].result.Metafile.t = "obj"
  /\ results[id].result.Metafile.inputs.t = "obj"

\* C11: ShouldRebuild always returns; it returns false for an identity
\* without a stored result and for one whose stored report is missing, empty,
\* unparsable or without a usable "inputs" object.
C11_ShouldRebuildNeverFails ==
  last.kind = "asked" =>
     /\ last.answer \in {"true", "false"}
     /\ ~UsableReport(last.call.id) => last.answer = "false"

-----------------------------------------------------------------------------
(***************************************************************************)
(* Build calls on several goroutines (SpecConc)                            *)
(*                                                                         *)
(* One goroutine per identity calls Build for it, on the same Runtime.     *)
(* Build takes no lock: it reads r.contexts at line 182 and assigns to     *)
(* r.contexts at line 185 and to r.results at line 189.  An assignment to  *)
(* a Go map takes time; an access to the same map by another goroutine     *)
(* while it is under way is a data race.  The Go runtime may notice it and *)
(* throw "concurrent map writes" or "concurrent map read and map write",   *)
(* which ends the process; when it does not, the map may lose one of the   *)
(* assignments under way, or come out right.                               *)
(***************************************************************************)

Maps == {"contexts", "results"}

\* what an access that races with an assignment can end in
RaceOutcomes == {"fatal", "torn", "unseen"}

\* goroutine g accesses map m while another goroutine assigns to it
Races(g, m) == mapWriters[m] \ {g} # {}

\* Build is entered: lines 96-180, with the handler file on disk
BuildEnter(g) ==
  /\ fault = "none"
  /\ task[g].pc = "idle"
  /\ LET f == getFile(HandlerA, disk)
     IN  /\ Found(f)
         /\ task' = [task EXCEPT ![g] =
                       [pc |-> "lookup",
                        options |-> ResolveOptions(g, f.file, Unmarshal(RawEmpty))]]
  /\ UNCHANGED <<mapWriters, lost, fault>>
  /\ UNCHANGED <<buildVars, logVars, runVars>>

\* line 182: the read of r.contexts
BuildLookup(g) ==
  /\ fault = "none"
  /\ task[g].pc = "lookup"
  /\ \E o \in IF Races(g, "contexts") THEN RaceOutcomes \ {"torn"} ELSE {"unseen"} :
        IF o = "fatal"
        THEN /\ fault' = "concurrent map read and map write"
             /\ UNCHANGED task
        ELSE /\ task' = [task EXCEPT ![g].pc =
                           IF Lookup(contexts, g).ok THEN "rebuild" ELSE "create"]
             /\ UNCHANGED fault
  /\ UNCHANGED <<mapWriters, lost>>
  /\ UNCHANGED <<buildVars, logVars, runVars>>

\* an assignment to map m begins
AssignBegin(g, m) ==
  /\ fault = "none"
  /\ task[g].pc = (IF m = "contexts" THEN "create" ELSE "store")
  /\ \E o \in IF Races(g, m) THEN RaceOutcomes ELSE {"unseen"} :
        IF o = "fatal"
        THEN /\ fault' = "concurrent map writes"
             /\ UNCHANGED <<task, mapWriters, lost>>
        ELSE /\ task' = [task EXCEPT ![g].pc = "assign"]
             /\ mapWriters' = [mapWriters EXCEPT ![m] = @ \cup {g}]
             /\ \E victim \in IF o = "torn" THEN mapWriters[m] \cup {g} ELSE {"nobody"} :
                   lost' = IF o = "torn" THEN lost \cup {<<victim, m>>} ELSE lost
             /\ UNCHANGED fault
  /\ UNCHANGED <<buildVars, logVars, runVars>>

\* lines 184-185: esbuild.Context(options), r.contexts[id] = buildContext
\* line 189: r.results[id] = result
AssignEnd(g, m) ==
  /\ fault = "none"
  /\ task[g].pc = "assign"
  /\ g \in mapWriters[m]
  /\ mapWriters' = [mapWriters EXCEPT ![m] = @ \ {g}]
  /\ lost' = lost \ {<<g, m>>}
  /\ IF m = "contexts"
     THEN /\ contexts' = IF <<g, m>> \in lost THEN contexts
                         ELSE [contexts EXCEPT ![g] = Context(task[g].options, 1)]
          /\ task' = [task EXCEPT ![g].pc = "rebuild"]
          /\ UNCHANGED results
     ELSE /\ results' = IF <<g, m>> \in lost THEN results
                        ELSE [results EXCEPT ![g] = Stored(task[g].result)]
          /\ task' = [task EXCEPT ![g].pc = "done"]
          /\ UNCHANGED contexts
  /\ UNCHANGED fault
  /\ UNCHANGED <<disk, last, nCreated, reached, goodDeps, hadGood>>
  /\ UNCHANGED <<logVars, runVars>>

\* line 188: buildContext.Rebuild()
BuildRebuild(g) ==
  /\ fault = "none"
  /\ task[g].pc = "rebuild"
  /\ \E res \in RebuildResults :
        task' = [task EXCEPT ![g] = [pc |-> "store", options |-> task[g].options,
                                     result |-> res]]
  /\ UNCHANGED <<mapWriters, lost, fault>>
  /\ UNCHANGED <<buildVars, logVars, runVars>>

InitConc ==
  /\ InitRuntime /\ NoWorker /\ NoRun
  /\ disk = {Candidates[HandlerA][1]}

NextConc ==
  \/ \E g \in Ids : BuildEnter(g)
  \/ \E g \in Ids : BuildLookup(g)
  \/ \E g \in Ids, m \in Maps : AssignBegin(g, m)
  \/ \E g \in Ids, m \in Maps : AssignEnd(g, m)
  \/ \E g \in Ids : BuildRebuild(g)

SpecConc == InitConc /\ [][NextConc]_vars

\* C12: two Build calls for different identities that run at the same time
\* both complete, and then each identity has its own context and its own
\* result in the maps; no interleaving ends in a fault or loses an entry.
C12_ConcurrentBuildsAreIndependent ==
  /\ fault = "none"
  /\ \A g \in Ids :
        /\ task[g].pc \in {"rebuild", "store", "assign", "done"}
             => (g \in mapWriters["contexts"] \/ contexts[g].st = "ctx")
        /\ task[g].pc = "done"
             => /\ contexts[g] = Context(task[g].options, 1)
                /\ results[g] = Stored(task[g].result)

-----------------------------------------------------------------------------
(***************************************************************************)
(* Logs called twice on one Worker (SpecShared)                            *)
(*                                                                         *)
(* Each call makes its own pipe and its own three goroutines; the copy     *)
(* loops of both calls read the same w.stdout and w.stderr.  A byte of an  *)
(* OS pipe goes to the one Read that takes it, and every Read sees         *)
(* end-of-stream once the pipe is empty and its write end closed.          *)
(***************************************************************************)

FewBytes == 1   \* the bytes the process writes per source when two streams share them

ProcWriteFew(s) == nWritten[s] < FewBytes /\ ProcWrite(s)

NextShared ==
  \/ \E s \in Sources : ProcWriteFew(s)
  \/ ProcExit
  \/ \E k \in Streams : Logs(k)
  \/ \E k \in Streams, s \in Sources : CopyRead(k, s)
  \/ \E k \in Streams, s \in Sources : CopyLock(k, s)
  \/ \E k \in Streams, s \in Sources : CopyWritten(k, s)
  \/ \E k \in Streams : CloserClose(k)
  \/ \E k \in Streams : ConsumerRead(k)

SpecShared == InitLogs /\ [][NextShared]_vars

\* both calls of Logs are made, every goroutine is scheduled, both consumers
\* keep reading and the process exits
FairShared ==
  /\ WF_vars(ProcExit)
  /\ \A k \in Streams :
        /\ WF_vars(Logs(k))
        /\ WF_vars(CloserClose(k))
        /\ WF_vars(ConsumerRead(k))
        /\ \A s \in Sources :
              /\ WF_vars(CopyRead(k, s))
              /\ SF_vars(CopyLock(k, s))
              /\ WF_vars(CopyWritten(k, s))

FairSpecShared == SpecShared /\ FairShared

\* how often byte b has been delivered, over all streams
TimesDelivered(b) ==
  Cardinality({<<k, i>> \in Streams \X (1..(2 * MaxBytes)) :
                  i <= Len(got[k]) /\ got[k][i] = b})

\* C13: with Logs called twice on one Worker and both streams read, no byte
\* is ever delivered twice, and eventually both streams are at end-of-stream
\* with every byte the process wrote delivered to exactly one of them.
C13_SharedSourcesDeliverOnce ==
  /\ [](\A s \in Sources : \A i \in 1..nWritten[s] : TimesDelivered(<<s, i>>) <= 1)
  /\ (\A k \in Streams : consumer[k] # "idle")
        ~> /\ \A k \in Streams : consumer[k] = "eof"
           /\ \A s \in Sources : \A i \in 1..nWritten[s] : TimesDelivered(<<s, i>>) = 1

\* the two streams have each delivered a byte of the same process, and both
\* are at end-of-stream
C13_Witness ==
  /\ \A k \in Streams : consumer[k] = "eof"
  /\ got["first"] = << <<"stderr", 1>> >>
  /\ got["second"] = << <<"stdout", 1>> >>

-----------------------------------------------------------------------------
(***************************************************************************)
(* Claims about Worker.Stop (SpecRun)                                      *)
(***************************************************************************)

\* C14: every Worker Run returns owns a started process and its two output
\* pipes, and Stop on it requests the termination of the process's group
\* and returns, without a fault, whether or not the process still runs.
C14_StopOnAnyReturnedWorker ==
  run.st = "returned" =>
     /\ run.worker.process # "nil"
     /\ run.worker.stdout = "open" /\ run.worker.stderr = "open"
     /\ run.stop # "panic"
     /\ run.stop = "returned" => "stop" \in signals

-----------------------------------------------------------------------------
(***************************************************************************)
(* Claims about Build's diagnostics (SpecBuild)                            *)
(***************************************************************************)

\* entry is the rendering of message: its text, and its location when known
Corresponds(entry, message) ==
  /\ entry # <<>> /\ entry[1] = message.Text
  /\ IF message.Location.known
     THEN /\ Len(entry) = 7
          /\ entry[3] = message.Location.File
          /\ entry[5] = ToString(message.Location.Line)
          /\ entry[7] = ToString(message.Location.Column)
     ELSE Len(entry) = 1

\* C15: a Build that reaches the rebuild returns, without a call failure, a
\* list that has an entry for every error and for every warning of the
\* rebuild, with the location appended when it is known.
C15_EveryDiagnosticIsReturned ==
  \A id \in Ids :
     (last.kind \in {"ok", "panic"} /\ last.call.id = id /\ contexts[id].st = "ctx") =>
        /\ last.kind = "ok"
        /\ LET res == results[id].result
               all == res.Errors \o res.Warnings
           IN  \A i \in 1..Len(all) :
                  \E j \in 1..Len(last.out.Errors) :
                     Corresponds(last.out.Errors[j], all[i])

-----------------------------------------------------------------------------
(***************************************************************************)
(* Claims about the maps of the Runtime (SpecBuild)                        *)
(***************************************************************************)

\* C16: a context whose creation failed is never stored, and no Build, the
\* one that tried to create it or a later one, calls Rebuild on it.
C16_RebuildOnlyOnCreatedContext ==
  /\ \A id \in Ids : contexts[id].st # "nil"
  /\ last.kind # "panic"

\* C17: in every state a sequence of Build calls reaches, an identity with a
\* stored result has a stored context, and no Build removes an entry of
\* either map.
C17_ResultsImplyContexts ==
  /\ [](\A id \in Ids : results[id].st = "set" => contexts[id].st = "ctx")
  /\ [][\A id \in Ids :
          /\ contexts[id].st # "absent" => contexts'[id].st # "absent"
          /\ results[id].st = "set" => results'[id].st = "set"
       ]_vars

\* both identities have a context and a result, and the last Build has
\* overwritten the result of its identity with that of a failed rebuild
C17_Witness ==
  /\ \A id \in Ids : contexts[id].st = "ctx" /\ results[id].st = "set"
  /\ last.kind = "ok" /\ last.reused
  /\ results[last.call.id].result.Errors # <<>>
  /\ hadGood[last.call.id]

-----------------------------------------------------------------------------
(***************************************************************************)
(* A consumer that gives up (SpecAbandon)                                  *)
(*                                                                         *)
(* The consumer of the stream may stop reading before end-of-stream, and   *)
(* may close the reader.  A Write on the pipe returns when its bytes are   *)
(* read or when either end of the pipe is closed; nothing else ends it.    *)
(***************************************************************************)

\* the consumer reads no more
ConsumerStop(k) ==
  /\ consumer[k] = "reading"
  /\ consumer' = [consumer EXCEPT ![k] = "stopped"]
  /\ UNCHANGED <<proc, nWritten, srcBuf, pc, chunk, wrMu, wg, closerPc, writerClosed,
                 nClose, lateWrite, sawEOF, got, nEOF>>
  /\ UNCHANGED <<buildVars, runVars, concVars>>

\* the consumer calls Close on the reader
ConsumerClose(k) ==
  /\ consumer[k] \in {"reading", "stopped"}
  /\ consumer' = [consumer EXCEPT ![k] = "closed"]
  /\ UNCHANGED <<proc, nWritten, srcBuf, pc, chunk, wrMu, wg, closerPc, writerClosed,
                 nClose, lateWrite, sawEOF, got, nEOF>>
  /\ UNCHANGED <<buildVars, runVars, concVars>>

NextAbandon ==
  \/ \E s \in Sources : ProcWrite(s)
  \/ ProcExit
  \/ Logs("first")
  \/ \E s \in Sources : CopyRead("first", s)
  \/ \E s \in Sources : CopyLock("first", s)
  \/ \E s \in Sources : CopyWritten("first", s)
  \/ CloserClose("first")
  \/ ConsumerRead("first")
  \/ ConsumerStop("first")
  \/ ConsumerClose("first")

SpecAbandon == InitLogs /\ [][NextAbandon]_vars

\* the goroutines are scheduled and the process exits; the consumer is free
\* to stop and to close
FairSpecAbandon == SpecAbandon /\ FairLogs

\* every goroutine Logs started on stream k has returned
TasksDone(k) == closerPc[k] = "done" /\ \A s \in Sources : pc[k][s] = "done"

\* C18: once the process has exited, the two copy loops and the closing task
\* of a Logs call all end, also when the consumer stops reading before
\* end-of-stream, whether it closes the stream or not.
C18_LogsTasksTerminate ==
  (proc = "exited" /\ consumer["first"] # "idle") ~> TasksDone("first")

====
